---- MODULE Spec2Model ----
(***************************************************************************)
(* Gestor Financeiro: recurring expenses ("despesas recorrentes"), their   *)
(* due-date arithmetic and the "mark as paid" bridge to the ledger; the    *)
(* due-date alerts, what was spent against a budget, and the goals.        *)
(*                                                                         *)
(* Client: gestor-financeiro-frontend/src/App.jsx (React).                 *)
(* Server: unnamed/part_002 (Express + SQLite).                            *)
(* Earlier, localStorage client: unnamed/part_001 (its date functions).    *)
(*                                                                         *)
(* Dates are "YYYY-MM-DD" strings in the code.  They are modelled as       *)
(* <<year, month, day>>; for the four-digit years isValidDate admits       *)
(* (dateString.length === 10) the string order `<=` the code uses is the   *)
(* lexicographic order on these triples.                                   *)
(***************************************************************************)
EXTENDS Integers, Sequences, FiniteSets, TLC

\* ------------------------------------------------------------------------
\* Bounds of the model
\* ------------------------------------------------------------------------
MaxObl == 1        \* rows ever inserted into recurring_expenses
MaxTx == 2         \* rows ever inserted into transactions
MaxEdits == 1      \* PUT /recurring-expenses/:id requests that are not part of pay
MaxGoals == 1      \* rows ever inserted into goals
MaxContribs == 2   \* contributions submitted

\* ------------------------------------------------------------------------
\* Calendar arithmetic of the JavaScript Date object
\* ------------------------------------------------------------------------
IsLeap(y) == (y % 4 = 0 /\ y % 100 # 0) \/ y % 400 = 0

DaysInMonth(y, m) ==
    IF m = 2 THEN (IF IsLeap(y) THEN 29 ELSE 28)
    ELSE IF m \in {4, 6, 9, 11} THEN 30 ELSE 31

\* A day past the end of the month rolls over into the following month(s).
RECURSIVE RollOver(_, _, _)
RollOver(y, m, d) ==
    IF d <= DaysInMonth(y, m) THEN <<y, m, d>>
    ELSE IF m = 12 THEN RollOver(y + 1, 1, d - DaysInMonth(y, m))
    ELSE RollOver(y, m + 1, d - DaysInMonth(y, m))

\* variant: a day past the end of the month is clamped to the month's last day
MkDateClamped(y, monthIndex, d) ==
    LET yy == y + (monthIndex \div 12)
        mm == (monthIndex % 12) + 1
    IN  <<yy, mm, IF d <= DaysInMonth(yy, mm) THEN d ELSE DaysInMonth(yy, mm)>>

\* new Date(y, monthIndex, d) for d >= 1: monthIndex is 0-based and may
\* exceed 11 (the excess carries into the year)
MkDate(y, monthIndex, d) == RollOver(y + (monthIndex \div 12), (monthIndex % 12) + 1, d)

\* Date.prototype.getDay(): 0 = Sunday .. 6 = Saturday
getDay(date) ==
    LET t == <<0, 3, 2, 5, 0, 3, 5, 1, 4, 6, 2, 4>>
        y == IF date[2] < 3 THEN date[1] - 1 ELSE date[1]
    IN  (y + (y \div 4) - (y \div 100) + (y \div 400) + t[date[2]] + date[3]) % 7

IsValidCalendarDate(date) ==
    /\ date[2] \in 1..12
    /\ date[3] \in 1..DaysInMonth(date[1], date[2])

\* "YYYY-MM-DD" <= "YYYY-MM-DD" on strings
StrLE(a, b) ==
    \/ a[1] < b[1]
    \/ a[1] = b[1] /\ a[2] < b[2]
    \/ a[1] = b[1] /\ a[2] = b[2] /\ a[3] <= b[3]

StrLT(a, b) == StrLE(a, b) /\ a # b

\* the while loop of the 'fifth-business-day' case: td after the loop
RECURSIVE FifthLoop(_, _, _, _)
FifthLoop(y, m, count, td) ==
    LET t == <<y, m, td>>
        c1 == IF getDay(t) # 0 /\ getDay(t) # 6 THEN count + 1 ELSE count
    IN  IF c1 < 5 THEN FifthLoop(y, m, c1, td + 1) ELSE td

Frequencies ==
    {"monthly", "bimonthly", "quarterly", "semiannual", "annual", "fifth-business-day"}

\* a tag the switch does not know (falls to `default`)
UnknownFrequency == "weekly"

\* variant: the switch has no `default` branch
CalcNextDueNoDefault(currentDue, frequency) ==
    LET y == currentDue[1]
        m == currentDue[2]
        d == currentDue[3]
    IN  CASE frequency = "monthly" -> MkDate(y, (m - 1) + 1, d)
          [] frequency = "bimonthly" -> MkDate(y, (m - 1) + 2, d)
          [] frequency = "quarterly" -> MkDate(y, (m - 1) + 3, d)
          [] frequency = "semiannual" -> MkDate(y, (m - 1) + 6, d)
          [] frequency = "annual" -> MkDate(y + 1, m - 1, d)
          [] frequency = "fifth-business-day" ->
                LET nm == MkDate(y, m, 1)
                IN  <<nm[1], nm[2], FifthLoop(nm[1], nm[2], 0, 1)>>
          [] OTHER -> MkDate(y, m - 1, d)

calcNextDue(currentDue, frequency) ==
    LET y == currentDue[1]
        m == currentDue[2]
        d == currentDue[3]
    IN  CASE frequency = "monthly" -> MkDate(y, (m - 1) + 1, d)
          [] frequency = "bimonthly" -> MkDate(y, (m - 1) + 2, d)
          [] frequency = "quarterly" -> MkDate(y, (m - 1) + 3, d)
          [] frequency = "semiannual" -> MkDate(y, (m - 1) + 6, d)
          [] frequency = "annual" -> MkDate(y + 1, m - 1, d)
          [] frequency = "fifth-business-day" ->
                LET nm == MkDate(y, m, 1)
                IN  <<nm[1], nm[2], FifthLoop(nm[1], nm[2], 0, 1)>>
          [] OTHER -> MkDate(y, (m - 1) + 1, d)

\* variant: one advancement instead of a loop
AdvanceOnce(nextDueDate, recurrence, today0) ==
    IF StrLE(nextDueDate, today0) THEN calcNextDue(nextDueDate, recurrence) ELSE nextDueDate

\* variant: the loop body runs before the test (do ... while)
RECURSIVE AdvanceDoWhile(_, _, _)
AdvanceDoWhile(nextDueDate, recurrence, today0) ==
    LET n == calcNextDue(nextDueDate, recurrence)
    IN  IF StrLE(n, today0) THEN AdvanceDoWhile(n, recurrence, today0) ELSE n

\* variant: the loop stops on `<` (a date equal to today is kept)
RECURSIVE AdvanceWhileBefore(_, _, _)
AdvanceWhileBefore(nextDueDate, recurrence, today0) ==
    IF StrLT(nextDueDate, today0)
    THEN AdvanceWhileBefore(calcNextDue(nextDueDate, recurrence), recurrence, today0)
    ELSE nextDueDate

\* the loop of addRecurringExpense: while (nextDueDate <= today) advance
RECURSIVE AdvanceFromStart(_, _, _)
AdvanceFromStart(nextDueDate, recurrence, today0) ==
    IF StrLE(nextDueDate, today0)
    THEN AdvanceFromStart(calcNextDue(nextDueDate, recurrence), recurrence, today0)
    ELSE nextDueDate


\* ------------------------------------------------------------------------
\* The date functions of the localStorage version of the client
\* (unnamed/part_001), run with the host clock on UTC
\* ------------------------------------------------------------------------
LegacyFrequencies ==
    {"mensal", "bimestral", "trimestral", "semestral", "anual", "quinto-dia-util"}

\* calculateFifthBusinessDay(date): the loop counts the business days of the
\* month of `date`; its day number is then taken into the following month
calculateFifthBusinessDay(date) ==
    LET year == date[1]
        month == date[2] - 1
        day == FifthLoop(year, month + 1, 0, 1)
    IN  MkDate(year, month + 1, day)

\* the switch inside the loop of calculateNextDue
calculateNextDueStep(nextDue, recurrence) ==
    LET y == nextDue[1]
        m == nextDue[2]
        d == nextDue[3]
    IN  CASE recurrence = "mensal" -> MkDate(y, (m - 1) + 1, d)
          [] recurrence = "bimestral" -> MkDate(y, (m - 1) + 2, d)
          [] recurrence = "trimestral" -> MkDate(y, (m - 1) + 3, d)
          [] recurrence = "semestral" -> MkDate(y, (m - 1) + 6, d)
          [] recurrence = "anual" -> MkDate(y + 1, m - 1, d)
          [] recurrence = "quinto-dia-util" -> calculateFifthBusinessDay(nextDue)
          [] OTHER -> MkDate(y, (m - 1) + 1, d)

\* calculateNextDue(startDate, recurrence) called on day today0:
\* while (nextDue <= today) { switch ... }
RECURSIVE calculateNextDue(_, _, _)
calculateNextDue(startDate, recurrence, today0) ==
    IF StrLE(startDate, today0)
    THEN calculateNextDue(calculateNextDueStep(startDate, recurrence), recurrence, today0)
    ELSE startDate

\* ------------------------------------------------------------------------
\* The due-date alerts (checkDueExpenses)
\* ------------------------------------------------------------------------
\* 1000 * 60 * 60 * 24
MsPerDay == 86400000

\* the days of year y before its month m
DaysBeforeMonth(y, m) ==
    LET t == <<0, 31, 59, 90, 120, 151, 181, 212, 243, 273, 304, 334>>
    IN  t[m] + (IF m > 2 /\ IsLeap(y) THEN 1 ELSE 0)

\* new Date("YYYY-MM-DD") is midnight UTC of that day: its day count
DayNumber(date) ==
    LET y == date[1] - 1
    IN  365 * y + (y \div 4) - (y \div 100) + (y \div 400)
        + DaysBeforeMonth(date[1], date[2]) + date[3]

\* variant: the quotient is rounded down
FloorDiv(a, b) == a \div b

\* Math.ceil(a / b) for b > 0
CeilDiv(a, b) == -((-a) \div b)

\* dueDate - today in ms, for `now` being `ms` past midnight UTC of day today0
DiffTime(nextDue, today0, ms) == (DayNumber(nextDue) - DayNumber(today0)) * MsPerDay - ms

\* diffDays of checkDueExpenses
DiffDays(nextDue, today0, ms) == CeilDiv(DiffTime(nextDue, today0, ms), MsPerDay)

\* what checkDueExpenses does with one expense: an alert ("dueSoon"), an alert
\* with overdue: true ("overdue"), or no alert ("scheduled")
DueBucket(diffDays) ==
    IF diffDays <= 7 /\ diffDays >= 0 THEN "dueSoon"
    ELSE IF diffDays < 0 THEN "overdue"
    ELSE "scheduled"

\* ------------------------------------------------------------------------
\* Text, amounts and categories
\* ------------------------------------------------------------------------
\* A text is `lead` blanks, `body` characters (the first and last of them not
\* blank) and `trail` blanks; `tag` stands for the characters themselves.
Text(tag, lead, body, trail) == [tag |-> tag, lead |-> lead, body |-> body, trail |-> trail]

EmptyText == Text("", 0, 0, 0)

MaxDescription == 100
MaxAmount == 1000000

\* String.prototype.trim().length
TrimLength(t) == t.body

\* !description on the server: only the empty string is falsy
IsFalsyText(t) == t.lead + t.body + t.trail = 0

isNotEmpty(t) == TrimLength(t) > 0

isValidDescription(t) == isNotEmpty(t) /\ TrimLength(t) <= MaxDescription

\* text.trim().slice(0, 100)
sanitizeText(t) ==
    Text(t.tag, 0, IF t.body <= MaxDescription THEN t.body ELSE MaxDescription, 0)

isValidPositiveNumber(v) == v > 0

isReasonableAmount(v) == isValidPositiveNumber(v) /\ v <= MaxAmount

\* display names of the expense categories offered for recurring expenses
\* ("Alimentação" and "Saúde" are written without diacritics)
validCategories == {"Alimentacao", "Transporte", "Moradia", "Saude", "Lazer", "Outros"}

isValidCategory(category) == category # "" /\ category \in validCategories

\* variant: every category is filed under 'out-desp'
CatMapAlwaysFallback(category) == "out-desp"

\* RECURRING_CAT_MAP[expense.category] || 'out-desp'
RECURRING_CAT_MAP(category) ==
    CASE category = "Alimentacao" -> "alim"
      [] category = "Transporte" -> "trans"
      [] category = "Moradia" -> "mor"
      [] category = "Saude" -> "sau"
      [] category = "Lazer" -> "laz"
      [] category = "Outros" -> "out-desp"
      [] OTHER -> "out-desp"

\* the default expense categories of the application: id -> display name
CategoryName(catId) ==
    CASE catId = "alim" -> "Alimentacao"
      [] catId = "trans" -> "Transporte"
      [] catId = "mor" -> "Moradia"
      [] catId = "sau" -> "Saude"
      [] catId = "laz" -> "Lazer"
      [] catId = "out-desp" -> "Outros"
      [] OTHER -> ""

\* ------------------------------------------------------------------------
\* Budgets: what was spent in a category (Orcamentos.getSpent)
\* ------------------------------------------------------------------------
\* categoriasDesp: the default expense categories and one the user added
categoriasDesp ==
    {[id |-> RECURRING_CAT_MAP(name), name |-> name] : name \in validCategories}
    \cup {[id |-> "custom_1", name |-> "Pets"]}

\* String.prototype.toLowerCase on the category names
toLowerCase(name) ==
    CASE name = "Alimentacao" -> "alimentacao"
      [] name = "Transporte" -> "transporte"
      [] name = "Moradia" -> "moradia"
      [] name = "Saude" -> "saude"
      [] name = "Lazer" -> "lazer"
      [] name = "Outros" -> "outros"
      [] name = "Pets" -> "pets"
      [] OTHER -> name

\* getCatIds(name): the ids of the categories with that name
getCatIds(name) == {c.id : c \in {x \in categoriasDesp : toLowerCase(x.name) = toLowerCase(name)}}

\* variant: the monthly window compares the month only
InPeriodMonthOnly(date, now, period) ==
    IF period = "monthly" THEN date[2] = now[2] ELSE date[1] = now[1]

\* the date test of the filter in getSpent (d and now in local time)
InPeriod(date, now, period) ==
    IF period = "monthly" THEN date[2] = now[2] /\ date[1] = now[1] ELSE date[1] = now[1]

\* .reduce((s, t) => s + parseFloat(t.value || 0), 0)
RECURSIVE SumValues(_)
SumValues(rows) ==
    IF rows = {} THEN 0
    ELSE LET t == CHOOSE x \in rows : TRUE IN t.value + SumValues(rows \ {t})

\* getSpent(catName, period) over the transactions, on day `now`
getSpent(catName, period, rows, now) ==
    LET catIds == getCatIds(catName)
    IN  SumValues({t \in rows :
                      /\ t.type = "despesa"
                      /\ t.category \in catIds
                      /\ InPeriod(t.date, now, period)})

\* a quotient num / den of two amounts, den > 0
Ratio(num, den) == [num |-> num, den |-> den]

\* Math.min((spent / limit) * 100, 100), for limit > 0
pct(spent, limit) ==
    IF spent * 100 <= 100 * limit THEN Ratio(spent * 100, limit) ELSE Ratio(100 * limit, limit)

\* variant: the comparison is `>=`
OverBudgetAtLimit(spent, limit) == spent >= limit

\* spent > limit
overBudget(spent, limit) == spent > limit

\* q.toFixed(0) for q >= 0: the nearest integer, halves upwards
toFixed0(q) == (2 * q.num + q.den) \div (2 * q.den)

\* ------------------------------------------------------------------------
\* State
\* ------------------------------------------------------------------------
VARIABLES
    today,          \* the current (UTC) calendar day
    recurring,      \* table recurring_expenses: a set of rows
    recSeq,         \* AUTOINCREMENT of recurring_expenses
    transactions,   \* table transactions: a set of rows
    txSeq,          \* AUTOINCREMENT of transactions
    edits,          \* PUT /recurring-expenses/:id requests served outside pay
    view,           \* per tab: the recurringExpenses state (last fetched list)
    pay,            \* per tab: the locals of the running / last payRecurringExpense
    payLog,         \* the pay calls that inserted a transaction, in order
    created,        \* per inserted recurring expense: the start date given and the day it was added
    goals,          \* table goals: a set of rows
    goalSeq,        \* AUTOINCREMENT of goals
    goalView,       \* per tab: the goals state (last fetched list)
    contrib,        \* per tab: the last handleContribution call and how it ended
    call,           \* a function of the client and the arguments it is called with
    ret             \* what that call returned

\* the tables and lists of the financial goals ("metas")
goalVars == <<goals, goalSeq, goalView, contrib>>

\* a single call of one of the client's functions
fnVars == <<call, ret>>

\* the recurring expenses, the ledger and the sessions' lists
recVars == <<today, recurring, recSeq, transactions, txSeq, edits, view, pay, payLog, created>>

vars == <<recVars, goalVars, fnVars>>

\* the browser sessions (tabs) of the user
Tabs == {"tab1", "tab2"}

\* the session of a second user
OtherSession == "tab3"

Sessions == Tabs \cup {OtherSession}

\* currentUser.email of a session: the tabs are sessions of the same user
currentUser(c) == IF c = OtherSession THEN "bob@mail" ELSE "ana@mail"

NoDate == <<0, 0, 0>>

NoPay ==
    [pc |-> "none", exp |-> [id |-> 0], today0 |-> NoDate, activeAtCall |-> -1,
     txOk |-> FALSE, txId |-> 0, putSent |-> FALSE, newDue |-> NoDate, changes |-> 0]

\* no row (of a table, in a list)
NoRow == [id |-> 0]

\* no contribution has been made in the session
NoContrib ==
    [pc |-> "none", n |-> 0, goal |-> NoRow, amount |-> 0, ok |-> FALSE, before |-> NoRow,
     after |-> NoRow]

\* no function is being called
NoCall ==
    [fn |-> "none", date |-> NoDate, frequency |-> "", today0 |-> NoDate, ms |-> 0,
     category |-> "", period |-> "", txs |-> {},
     server |-> "", rows |-> {}, id |-> 0, userId |-> "", issuer |-> "", body |-> NoRow,
     query |-> [digits |-> 0 - 1, rest |-> FALSE], db |-> "ok", raced |-> FALSE,
     spent |-> 0, limit |-> 0]

NoRet ==
    [fn |-> "none", date |-> NoDate, days |-> 0, bucket |-> "", sum |-> 0,
     status |-> 0, rows |-> {}, pct |-> [num |-> 0, den |-> 1], label |-> 0,
     overBudget |-> FALSE, cls |-> ""]

\* a status badge of the list of recurring expenses
Badge(label, days, cls) == [label |-> label, days |-> days, cls |-> cls]

\* DespesasRecorrentes.getDueStatus(nextDue): `due` is midnight of the due
\* day by the clock of the host, which runs on UTC
getDueStatus(nextDue, today0, ms) ==
    IF nextDue = NoDate THEN Badge("none", 0, "")
    ELSE LET diff == CeilDiv(DiffTime(nextDue, today0, ms), MsPerDay)
         IN  IF diff < 0 THEN Badge("Vencida ha", 0 - diff, "overdue")
             ELSE IF diff = 0 THEN Badge("Vence hoje!", 0, "overdue")
             ELSE IF diff <= 7 THEN Badge("Vence em", diff, "due-soon")
             ELSE Badge("date", 0, "ok")

\* ------------------------------------------------------------------------
\* Server (unnamed/part_002)
\* ------------------------------------------------------------------------
\* variant: the query has no `AND is_active = 1`
GetRecurringExpensesOfUser(rows, userId) ==
    {r \in rows : r.userId = userId}

\* GET /recurring-expenses?userId=
GetRecurringExpenses(rows, userId) ==
    {r \in rows : r.userId = userId /\ r.is_active = 1}

\* POST /recurring-expenses: the 400 guard
PostRecurringRejects(body) ==
    \/ body.userId = ""
    \/ IsFalsyText(body.description)
    \/ body.category = ""
    \/ body.value = 0
    \/ body.frequency = ""
    \/ body.next_due_date = NoDate

\* POST /recurring-expenses: the INSERT (is_active DEFAULT 1)
InsertRecurring(rows, id, body) ==
    rows \cup {[id |-> id, userId |-> body.userId, description |-> body.description,
                category |-> body.category, value |-> body.value,
                frequency |-> body.frequency, next_due_date |-> body.next_due_date,
                is_active |-> 1]}

\* PUT /recurring-expenses/:id: UPDATE ... WHERE id = ?  (no owner or existence check)
UpdateRecurring(rows, id, body) ==
    {IF r.id = id
     THEN [r EXCEPT !.description = body.description, !.category = body.category,
                    !.value = body.value, !.frequency = body.frequency,
                    !.next_due_date = body.next_due_date, !.is_active = body.is_active]
     ELSE r : r \in rows}

\* this.changes of that UPDATE
UpdateChanges(rows, id) == Cardinality({r \in rows : r.id = id})

\* DELETE /recurring-expenses/:id
DeleteRecurring(rows, id) == {r \in rows : r.id # id}

\* POST /transactions: the 400 guard
PostTransactionRejects(body) ==
    \/ body.type = ""
    \/ IsFalsyText(body.description)
    \/ body.category = ""
    \/ body.value = 0
    \/ body.date = NoDate
    \/ body.userId = ""

\* POST /transactions: the INSERT
InsertTransaction(rows, id, body) ==
    rows \cup {[id |-> id, type |-> body.type, description |-> body.description,
                category |-> body.category, value |-> body.value, date |-> body.date,
                userId |-> body.userId]}

\* how a request ends: served, answered 500 (dbRun rejected), or fetch threw
Outcomes == {"ok", "http500", "neterr"}

\* what a route answers: the HTTP status and the table it leaves
Answer(status, rows) == [status |-> status, rows |-> rows]

\* PUT /recurring-expenses/:id, the whole route: nothing of the request names
\* the user who issues it, and the UPDATE is keyed by the id alone
PutRecurringExpense(rows, id, body, db) ==
    IF db = "error" THEN Answer(500, rows)
    ELSE Answer(200, UpdateRecurring(rows, id, body))

\* DELETE /recurring-expenses/:id, the whole route
DeleteRecurringExpense(rows, id, db) ==
    IF db = "error" THEN Answer(500, rows)
    ELSE Answer(200, DeleteRecurring(rows, id))

\* DELETE /transactions/:id?userId= : the owner is read first, then the row
\* is deleted; `raced` says that another request deleted the row in between
DeleteTransaction(rows, id, userId, db, raced) ==
    IF userId = "" THEN Answer(400, rows)
    ELSE IF db = "error" THEN Answer(500, rows)
    ELSE IF ~\E r \in rows : r.id = id THEN Answer(404, rows)
    ELSE IF (CHOOSE r \in rows : r.id = id).userId # userId THEN Answer(403, rows)
    ELSE IF raced THEN Answer(404, {r \in rows : r.id # id})
    ELSE Answer(200, {r \in rows : r.id # id})

\* the administrator of this server is the account with this e-mail
AdminEmail == "junior395@gmail.com"

\* DELETE /admin/users/:id : only the existence of the user is checked
DeleteUser(rows, id, db) ==
    IF db = "error" THEN Answer(500, rows)
    ELSE IF ~\E u \in rows : u.id = id THEN Answer(404, rows)
    ELSE Answer(200, {u \in rows : u.id # id})

\* ------------------------------------------------------------------------
\* Earlier server (server.js): integer user ids, users have a role
\* ------------------------------------------------------------------------
\* a userId query string: its leading decimal digits (as a number, -1 when it
\* has none) and whether more characters follow; "" is [digits -1, no rest]
QueryText(digits, rest) == [digits |-> digits, rest |-> rest]

\* !userId
IsEmptyQuery(q) == q.digits = 0 - 1 /\ ~q.rest

\* parseInt(userId): the leading digits, NaN when there are none
parseInt(q) == IF q.digits = 0 - 1 THEN [nan |-> TRUE, n |-> 0] ELSE [nan |-> FALSE, n |-> q.digits]

\* row.userId !== parseInt(userId)
StrictNotEqual(n, parsed) == parsed.nan \/ parsed.n # n

\* DELETE /transactions/:id?userId= of server.js
DeleteTransactionServerJs(rows, id, q, db, raced) ==
    IF IsEmptyQuery(q) THEN Answer(400, rows)
    ELSE IF db = "error" THEN Answer(500, rows)
    ELSE IF ~\E r \in rows : r.id = id THEN Answer(404, rows)
    ELSE IF StrictNotEqual((CHOOSE r \in rows : r.id = id).userId, parseInt(q))
         THEN Answer(403, rows)
    ELSE IF raced THEN Answer(404, {r \in rows : r.id # id})
    ELSE Answer(200, {r \in rows : r.id # id})

\* DELETE /admin/users/:id of server.js: the role is read first
DeleteUserServerJs(rows, id, db) ==
    IF db = "error" THEN Answer(500, rows)
    ELSE IF ~\E u \in rows : u.id = id THEN Answer(404, rows)
    ELSE IF (CHOOSE u \in rows : u.id = id).role = "admin" THEN Answer(403, rows)
    ELSE Answer(200, {u \in rows : u.id # id})

\* ------------------------------------------------------------------------
\* Client (gestor-financeiro-frontend/src/App.jsx)
\* ------------------------------------------------------------------------
\* fetchRecurringExpenses: the list a tab holds after a successful fetch
Fetched(rows, c) == GetRecurringExpenses(rows, currentUser(c))

\* the validations of DespesasRecorrentes.handleSubmit and addRecurringExpense
AddIsValid(expense) ==
    /\ ~IsFalsyText(expense.description) /\ expense.value # 0 /\ expense.category # ""
    /\ expense.value > 0
    /\ isValidDescription(expense.description)
    /\ isReasonableAmount(expense.value)
    /\ IsValidCalendarDate(expense.startDate)
    /\ expense.recurrence # "" /\ expense.recurrence \in Frequencies
    /\ isValidCategory(expense.category)

\* the body addRecurringExpense posts
AddBody(c, expense, today0) ==
    [userId |-> currentUser(c),
     description |-> sanitizeText(expense.description),
     category |-> expense.category,
     value |-> expense.value,
     frequency |-> expense.recurrence,
     next_due_date |-> AdvanceFromStart(expense.startDate, expense.recurrence, today0)]

\* addRecurringExpense(expense) in tab c; `net` is how the POST ends
addRecurringExpense(c, expense, net) ==
    /\ recSeq < MaxObl
    /\ UNCHANGED <<goalVars, fnVars, today, transactions, txSeq, edits, pay, payLog>>
    /\ LET body == AddBody(c, expense, today)
       IN  IF AddIsValid(expense) /\ net = "ok" /\ ~PostRecurringRejects(body)
           THEN /\ recurring' = InsertRecurring(recurring, recSeq + 1, body)
                /\ recSeq' = recSeq + 1
                /\ view' = [view EXCEPT ![c] = Fetched(recurring', c)]
                /\ created' = created \cup {[id |-> recSeq + 1, startDate |-> expense.startDate,
                                              recurrence |-> expense.recurrence, today0 |-> today]}
           ELSE UNCHANGED <<recurring, recSeq, view, created>>

\* deleteRecurringExpense(id) on a listed expense
deleteRecurringExpense(c, exp, net) ==
    /\ exp \in view[c]
    /\ UNCHANGED <<goalVars, fnVars, today, transactions, txSeq, edits, pay, payLog, recSeq, created>>
    /\ IF net = "ok"
       THEN /\ recurring' = DeleteRecurring(recurring, exp.id)
            /\ view' = [view EXCEPT ![c] = Fetched(recurring', c)]
       ELSE UNCHANGED <<recurring, view>>

\* DespesasRecorrentes.startEdit: the edit form of a listed expense
startEdit(exp) ==
    [description |-> exp.description, category |-> exp.category, value |-> exp.value,
     frequency |-> exp.frequency, next_due_date |-> exp.next_due_date, is_active |-> 1]

\* handleUpdate -> updateRecurringExpense(id, editForm)
updateRecurringExpense(c, exp, editForm, net) ==
    /\ exp \in view[c]
    /\ edits < MaxEdits
    /\ edits' = edits + 1
    /\ UNCHANGED <<goalVars, fnVars, today, transactions, txSeq, pay, payLog, recSeq, created>>
    /\ IF net = "ok"
       THEN /\ recurring' = UpdateRecurring(recurring, exp.id, editForm)
            /\ view' = [view EXCEPT ![c] = Fetched(recurring', c)]
       ELSE UNCHANGED <<recurring, view>>

\* variant: the transaction is dated with the day of the payment
PayTxBodyDatedToday(c, expense) ==
    [type |-> "despesa",
     description |-> expense.description,
     category |-> RECURRING_CAT_MAP(expense.category),
     value |-> expense.value,
     date |-> today,
     userId |-> currentUser(c)]

\* the body of the POST /transactions of payRecurringExpense
PayTxBody(c, expense) ==
    [type |-> "despesa",
     description |-> expense.description,
     category |-> RECURRING_CAT_MAP(expense.category),
     value |-> expense.value,
     date |-> expense.next_due_date,
     userId |-> currentUser(c)]

\* the next due date payRecurringExpense computes
PayNewDue(expense) == calcNextDue(expense.next_due_date, expense.frequency)

\* the body of the PUT /recurring-expenses/:id of payRecurringExpense
PayPutBody(expense, newDue) ==
    [description |-> expense.description,
     category |-> expense.category,
     value |-> expense.value,
     frequency |-> expense.frequency,
     next_due_date |-> newDue,
     is_active |-> 1]

\* is_active of row `id` in the table, -1 when there is no such row
StoredActive(rows, id) ==
    IF \E r \in rows : r.id = id THEN (CHOOSE r \in rows : r.id = id).is_active ELSE -1

\* variant: the `return` after a failed POST is missing
AfterPostNoReturn(txOk) == "posted"

\* where payRecurringExpense goes after the POST: `if (!txRes.ok) return`
AfterPost(txOk) == IF txOk THEN "posted" ELSE "ended"

\* payRecurringExpense(expense), up to the PUT being sent: the POST is served
\* (or fails), and on success newDue is computed and the PUT issued
PayPost(c, expense, net) ==
    /\ expense \in view[c]
    /\ pay[c].pc # "posted"
    /\ txSeq < MaxTx
    /\ UNCHANGED <<goalVars, fnVars, today, recurring, recSeq, edits, view, created>>
    /\ LET body == PayTxBody(c, expense)
           txOk == net = "ok" /\ ~PostTransactionRejects(body)
           next == AfterPost(txOk)
       IN  /\ transactions' = IF txOk THEN InsertTransaction(transactions, txSeq + 1, body)
                              ELSE transactions
           /\ txSeq' = IF txOk THEN txSeq + 1 ELSE txSeq
           /\ pay' = [pay EXCEPT ![c] =
                        [pc |-> next, exp |-> expense, today0 |-> today,
                         activeAtCall |-> StoredActive(recurring, expense.id), txOk |-> txOk,
                         txId |-> IF txOk THEN txSeq + 1 ELSE 0,
                         putSent |-> next = "posted",
                         newDue |-> IF next = "posted" THEN PayNewDue(expense) ELSE NoDate,
                         changes |-> 0]]
           /\ payLog' = IF txOk
                        THEN Append(payLog, [tab |-> c, obl |-> expense.id, tx |-> txSeq + 1,
                                             date |-> body.date, newDue |-> PayNewDue(expense),
                                             put |-> FALSE])
                        ELSE payLog

\* variant: the list is not fetched again after a payment
ViewNotRefreshed(old, rows, c, net) == old

\* the list of the tab after the PUT: fetchRecurringExpenses runs unless the
\* fetch of the PUT threw
ViewAfterPay(old, rows, c, net) == IF net = "neterr" THEN old ELSE Fetched(rows, c)

\* payRecurringExpense, from the PUT being served to the end: the response of
\* the PUT is not looked at; unless fetch threw, the lists are fetched again
PayPut(c, net) ==
    /\ pay[c].pc = "posted"
    /\ UNCHANGED <<goalVars, fnVars, today, transactions, txSeq, recSeq, edits, created>>
    /\ LET p == pay[c]
           served == net = "ok"
           n == IF served THEN UpdateChanges(recurring, p.exp.id) ELSE 0
       IN  /\ recurring' = IF served
                           THEN UpdateRecurring(recurring, p.exp.id, PayPutBody(p.exp, p.newDue))
                           ELSE recurring
           /\ pay' = [pay EXCEPT ![c] = [p EXCEPT !.pc = "ended", !.changes = n]]
           /\ view' = [view EXCEPT ![c] = ViewAfterPay(view[c], recurring', c, net)]
           /\ payLog' = [i \in DOMAIN payLog |->
                           IF payLog[i].tx = p.txId
                           THEN [payLog[i] EXCEPT !.put = (n > 0)] ELSE payLog[i]]

\* a tab (re)loads its list: the effect that calls fetchRecurringExpenses
fetchRecurringExpenses(c) ==
    /\ view[c] # Fetched(recurring, c)
    /\ view' = [view EXCEPT ![c] = Fetched(recurring, c)]
    /\ UNCHANGED <<goalVars, fnVars, today, recurring, recSeq, transactions, txSeq, edits, pay, payLog, created>>

\* some HTTP client sends PUT /recurring-expenses/:id with is_active = 0 and
\* the row's other columns as they are (a soft delete)
Deactivate(id) ==
    /\ edits < MaxEdits
    /\ \E r \in recurring :
         /\ r.id = id /\ r.is_active = 1
         /\ recurring' = UpdateRecurring(recurring, id, [startEdit(r) EXCEPT !.is_active = 0])
    /\ edits' = edits + 1
    /\ UNCHANGED <<goalVars, fnVars, today, recSeq, transactions, txSeq, view, pay, payLog, created>>

\* ------------------------------------------------------------------------
\* Goals ("metas"): server (unnamed/part_002) and client (App.jsx, Metas)
\* ------------------------------------------------------------------------
\* the value of an <input type="number">: empty, or the number typed
EmptyField == [empty |-> TRUE, n |-> 0]

Field(n) == [empty |-> FALSE, n |-> n]

\* parseFloat(field || 0)
ParseOrZero(field) == IF field.empty THEN 0 ELSE field.n

\* GET /goals?userId=
GetGoals(rows, userId) == {r \in rows : r.userId = userId /\ r.is_active = 1}

\* POST /goals: the 400 guard
PostGoalRejects(body) == body.userId = "" \/ body.name = "" \/ body.target_amount = 0

\* POST /goals: the INSERT (current_amount || 0, is_active DEFAULT 1; a
\* missing deadline or category is stored as null: NoDate, "")
InsertGoal(rows, id, body) ==
    rows \cup {[id |-> id, userId |-> body.userId, name |-> body.name,
                target_amount |-> body.target_amount, current_amount |-> body.current_amount,
                deadline |-> body.deadline, category |-> body.category, is_active |-> 1]}

\* PUT /goals/:id: UPDATE ... WHERE id = ?  (is_active ?? 1)
UpdateGoal(rows, id, body) ==
    {IF r.id = id
     THEN [r EXCEPT !.name = body.name, !.target_amount = body.target_amount,
                    !.current_amount = body.current_amount, !.deadline = body.deadline,
                    !.category = body.category, !.is_active = body.is_active]
     ELSE r : r \in rows}

\* DELETE /goals/:id
DeleteGoal(rows, id) == {r \in rows : r.id # id}

\* the stored goal `id`, NoRow when there is none
GoalRow(rows, id) == IF \E r \in rows : r.id = id THEN CHOOSE r \in rows : r.id = id ELSE NoRow

\* fetchGoals: the list a session holds after a successful fetch
FetchedGoals(rows, c) == GetGoals(rows, currentUser(c))

\* Metas.handleSubmit -> addGoal(data); `net` is how the POST ends
addGoal(c, form, net) ==
    /\ goalSeq < MaxGoals
    /\ UNCHANGED <<recVars, fnVars, contrib>>
    /\ LET body == [userId |-> currentUser(c), name |-> form.name,
                    target_amount |-> ParseOrZero(form.target_amount),
                    current_amount |-> ParseOrZero(form.current_amount),
                    deadline |-> form.deadline, category |-> form.category]
       IN  IF form.name # "" /\ ~form.target_amount.empty /\ net = "ok" /\ ~PostGoalRejects(body)
           THEN /\ goals' = InsertGoal(goals, goalSeq + 1, body)
                /\ goalSeq' = goalSeq + 1
                /\ goalView' = [goalView EXCEPT ![c] = FetchedGoals(goals', c)]
           ELSE UNCHANGED <<goals, goalSeq, goalView>>

\* the goal card shows the goal as completed (and offers no contribution)
completed(g) == g.current_amount >= g.target_amount

\* variant: the contribution replaces the current amount
NewAmountReplaces(goal, contribution) == ParseOrZero(contribution)

\* newAmt of handleContribution
NewAmount(goal, contribution) == goal.current_amount + ParseOrZero(contribution)

\* the contributions submitted so far in the sessions S
RECURSIVE Submitted(_)
Submitted(S) ==
    IF S = {} THEN 0
    ELSE LET x == CHOOSE y \in S : TRUE IN contrib[x].n + Submitted(S \ {x})

\* Metas.handleContribution(e, goal) -> updateGoal(goal.id, {...goal,
\* current_amount: newAmt}); `net` is how the PUT ends
handleContribution(c, goal, contribution, net) ==
    /\ goal \in goalView[c]
    /\ ~completed(goal)
    /\ Submitted(Sessions) < MaxContribs
    /\ UNCHANGED <<recVars, fnVars, goalSeq>>
    /\ LET body == [goal EXCEPT !.current_amount = NewAmount(goal, contribution)]
       IN  /\ goals' = IF net = "ok" THEN UpdateGoal(goals, goal.id, body) ELSE goals
           /\ goalView' = [goalView EXCEPT ![c] =
                              IF net = "ok" THEN FetchedGoals(goals', c) ELSE goalView[c]]
           /\ contrib' = [contrib EXCEPT ![c] =
                            [pc |-> "done", n |-> contrib[c].n + 1, goal |-> goal,
                             amount |-> ParseOrZero(contribution),
                             ok |-> net = "ok", before |-> GoalRow(goals, goal.id),
                             after |-> GoalRow(goals', goal.id)]]

\* deleteGoal(id) on a listed goal
deleteGoal(c, goal, net) ==
    /\ goal \in goalView[c]
    /\ UNCHANGED <<recVars, fnVars, goalSeq, contrib>>
    /\ IF net = "ok"
       THEN /\ goals' = DeleteGoal(goals, goal.id)
            /\ goalView' = [goalView EXCEPT ![c] = FetchedGoals(goals', c)]
       ELSE UNCHANGED <<goals, goalView>>

\* a session (re)loads its goals: the effect that calls fetchGoals
fetchGoals(c) ==
    /\ goalView[c] # FetchedGoals(goals, c)
    /\ goalView' = [goalView EXCEPT ![c] = FetchedGoals(goals, c)]
    /\ UNCHANGED <<recVars, fnVars, goals, goalSeq, contrib>>

\* ------------------------------------------------------------------------
\* Clock
\* ------------------------------------------------------------------------
\* the calendar day n days after `date`
AddDays(date, n) == MkDate(date[1], date[2] - 1, date[3] + n)

\* the clock moves on to a later day
Tick(day) ==
    /\ StrLT(today, day)
    /\ today' = day
    /\ UNCHANGED <<goalVars, fnVars, recurring, recSeq, transactions, txSeq, edits, view, pay, payLog, created>>

\* ------------------------------------------------------------------------
\* Inputs of the model
\* ------------------------------------------------------------------------
Rent == Text("aluguel", 0, 7, 0)
Net == Text("internet", 1, 8, 1)

SysTodays == {<<2024, 1, 31>>}
SysStarts == {<<2024, 1, 5>>, <<2024, 3, 10>>}
\* the days the clock can move on to
LaterDays == {AddDays(<<2024, 1, 31>>, 45)}

SysForms ==
    [description : {Rent}, value : {150}, category : {"Moradia"},
     recurrence : {"monthly", "fifth-business-day"}, startDate : SysStarts]
    \cup [description : {EmptyText, Net}, value : {0}, category : {"Outros"},
          recurrence : {"monthly"}, startDate : {<<2024, 1, 5>>}]

\* what the user may type into the edit form of `exp`: one field is changed
EditForms(exp) ==
    LET f == startEdit(exp)
    IN  {[f EXCEPT !.category = "Outros"],
         [f EXCEPT !.value = 0],
         [f EXCEPT !.frequency = "annual"],
         [f EXCEPT !.next_due_date = <<2023, 11, 30>>]}

\* ------------------------------------------------------------------------
\* The system: tabs of one user against the server
\* ------------------------------------------------------------------------
\* the goals table is empty and no session has listed or contributed
GoalsAtStart ==
    /\ goals = {}
    /\ goalSeq = 0
    /\ goalView = [c \in Sessions |-> {}]
    /\ contrib = [c \in Sessions |-> NoContrib]

\* no function call is being looked at
FnIdle == call = NoCall /\ ret = NoRet

\* the recurring expenses and the ledger are empty
RecurringAtStart ==
    /\ today \in SysTodays
    /\ recurring = {}
    /\ recSeq = 0
    /\ transactions = {}
    /\ txSeq = 0
    /\ edits = 0
    /\ view = [c \in Sessions |-> {}]
    /\ pay = [c \in Sessions |-> NoPay]
    /\ payLog = <<>>
    /\ created = {}

Init ==
    /\ today \in SysTodays
    /\ recurring = {}
    /\ recSeq = 0
    /\ transactions = {}
    /\ txSeq = 0
    /\ edits = 0
    /\ view = [c \in Sessions |-> {}]
    /\ pay = [c \in Sessions |-> NoPay]
    /\ payLog = <<>>
    /\ created = {}
    /\ GoalsAtStart
    /\ FnIdle

Next ==
    \/ \E c \in Tabs, expense \in SysForms, net \in Outcomes : addRecurringExpense(c, expense, net)
    \/ \E c \in Tabs, net \in Outcomes : \E exp \in view[c] : deleteRecurringExpense(c, exp, net)
    \/ \E c \in Tabs, net \in Outcomes : \E exp \in view[c] :
          \E editForm \in EditForms(exp) : updateRecurringExpense(c, exp, editForm, net)
    \/ \E c \in Tabs, net \in Outcomes : \E exp \in view[c] : PayPost(c, exp, net)
    \/ \E c \in Tabs, net \in Outcomes : PayPut(c, net)
    \/ \E c \in Tabs : fetchRecurringExpenses(c)
    \/ \E id \in 1..MaxObl : Deactivate(id)
    \/ \E day \in LaterDays : Tick(day)

Spec == Init /\ [][Next]_vars

\* ------------------------------------------------------------------------
\* Creation alone, over a wide range of start dates and days
\* ------------------------------------------------------------------------
DaysOf(years, months) ==
    {date \in years \X months \X (1..31) : IsValidCalendarDate(date)}

CreateTodays ==
    {<<2024, 1, 31>>, <<2024, 2, 29>>, <<2024, 3, 1>>, <<2024, 5, 5>>, <<2024, 12, 31>>}

CreateStarts == DaysOf({2023}, {10, 11, 12}) \cup DaysOf({2024}, 1..12) \cup DaysOf({2025}, {1})

CreateForms ==
    [description : {Rent}, value : {150}, category : {"Moradia"},
     recurrence : Frequencies, startDate : CreateStarts]

InitCreate ==
    /\ today \in CreateTodays
    /\ recurring = {}
    /\ recSeq = 0
    /\ transactions = {}
    /\ txSeq = 0
    /\ edits = 0
    /\ view = [c \in Sessions |-> {}]
    /\ pay = [c \in Sessions |-> NoPay]
    /\ payLog = <<>>
    /\ created = {}
    /\ GoalsAtStart
    /\ FnIdle

NextCreate ==
    \E expense \in CreateForms, net \in Outcomes : addRecurringExpense("tab1", expense, net)

SpecCreate == InitCreate /\ [][NextCreate]_vars

\* ------------------------------------------------------------------------
\* One tab working alone: no other session, no edit between the calls
\* ------------------------------------------------------------------------
NextSeq ==
    \/ \E expense \in SysForms, net \in Outcomes : addRecurringExpense("tab1", expense, net)
    \/ \E net \in Outcomes : \E exp \in view["tab1"] : PayPost("tab1", exp, net)
    \/ \E net \in Outcomes : PayPut("tab1", net)
    \/ \E day \in LaterDays : Tick(day)

SpecSeq == Init /\ [][NextSeq]_vars

\* ------------------------------------------------------------------------
\* Two tabs of the owner that only create and pay: no edit, no removal
\* ------------------------------------------------------------------------
NextPay ==
    \/ \E c \in Tabs, expense \in SysForms, net \in Outcomes : addRecurringExpense(c, expense, net)
    \/ \E c \in Tabs, net \in Outcomes : \E exp \in view[c] : PayPost(c, exp, net)
    \/ \E c \in Tabs, net \in Outcomes : PayPut(c, net)
    \/ \E c \in Tabs : fetchRecurringExpenses(c)
    \/ \E day \in LaterDays : Tick(day)

SpecPay == Init /\ [][NextPay]_vars

\* ------------------------------------------------------------------------
\* Two users: a session of each against the same server
\* ------------------------------------------------------------------------
ReadSessions == {"tab1", OtherSession}

NextRead ==
    \/ \E c \in ReadSessions, expense \in SysForms, net \in Outcomes :
          addRecurringExpense(c, expense, net)
    \/ \E c \in ReadSessions, net \in Outcomes : \E exp \in view[c] :
          deleteRecurringExpense(c, exp, net)
    \/ \E c \in ReadSessions, net \in Outcomes : \E exp \in view[c] :
          \E editForm \in EditForms(exp) : updateRecurringExpense(c, exp, editForm, net)
    \/ \E c \in ReadSessions, net \in Outcomes : \E exp \in view[c] : PayPost(c, exp, net)
    \/ \E c \in ReadSessions, net \in Outcomes : PayPut(c, net)
    \/ \E c \in ReadSessions : fetchRecurringExpenses(c)
    \/ \E id \in 1..MaxObl : Deactivate(id)

SpecRead == Init /\ [][NextRead]_vars

\* ------------------------------------------------------------------------
\* Goals: two tabs of one user creating goals and contributing to them
\* ------------------------------------------------------------------------
GoalForms ==
    [name : {"Viagem"}, target_amount : {Field(1000)},
     current_amount : {EmptyField, Field(900), Field(0 - 50)},
     deadline : {NoDate, <<2024, 12, 31>>}, category : {"Viagem"}]
    \cup [name : {"", "Viagem"}, target_amount : {EmptyField, Field(0)},
          current_amount : {Field(0)}, deadline : {NoDate}, category : {""}]

Contributions == {EmptyField, Field(0 - 10), Field(0), Field(50), Field(150)}

NextGoals ==
    \/ \E c \in Tabs, form \in GoalForms, net \in Outcomes : addGoal(c, form, net)
    \/ \E c \in Tabs, net \in Outcomes : \E goal \in goalView[c] :
          \E contribution \in Contributions : handleContribution(c, goal, contribution, net)
    \/ \E c \in Tabs, net \in Outcomes : \E goal \in goalView[c] : deleteGoal(c, goal, net)
    \/ \E c \in Tabs : fetchGoals(c)

SpecGoals == Init /\ [][NextGoals]_vars

\* ------------------------------------------------------------------------
\* The date functions, each called once with arguments from a range
\* ------------------------------------------------------------------------
CalcDates == DaysOf({2023, 2024}, 1..12)

CalcFrequencies == Frequencies \cup {UnknownFrequency, "mensal"}

CalcNextDueCalls ==
    {[NoCall EXCEPT !.fn = "calcNextDue", !.date = date, !.frequency = frequency] :
        date \in CalcDates, frequency \in CalcFrequencies}

CalculateFifthBusinessDayCalls ==
    {[NoCall EXCEPT !.fn = "calculateFifthBusinessDay", !.date = date] : date \in CalcDates}

LegacyStarts == DaysOf({2023}, {11, 12}) \cup DaysOf({2024}, {1, 2})

CalculateNextDueCalls ==
    {[NoCall EXCEPT !.fn = "calculateNextDue", !.date = date, !.frequency = frequency,
                    !.today0 = today0] :
        date \in LegacyStarts, frequency \in LegacyFrequencies \cup {UnknownFrequency},
        today0 \in SysTodays}

\* the alert classifier: days around four days, at four times of the day
MaxDiffDays == 10

AlertTodays == {<<2023, 12, 28>>, <<2024, 1, 31>>, <<2024, 2, 25>>, <<2024, 3, 5>>}

AlertTimes == {0, 1, 43200000, MsPerDay - 1}

CheckDueExpensesCalls ==
    {[NoCall EXCEPT !.fn = "checkDueExpenses", !.date = AddDays(today0, MaxDiffDays + k),
                    !.today0 = AddDays(today0, MaxDiffDays), !.ms = ms] :
        today0 \in AlertTodays, k \in (0 - MaxDiffDays)..MaxDiffDays, ms \in AlertTimes}

\* the badge is computed for the same due dates and clocks, and for a row
\* without a due date
GetDueStatusCalls ==
    {[c EXCEPT !.fn = "getDueStatus"] : c \in CheckDueExpensesCalls}
    \cup {[NoCall EXCEPT !.fn = "getDueStatus", !.today0 = today0] : today0 \in AlertTodays}

\* getSpent: the ledger is any subset of seven transactions
LedgerPool ==
    {[id |-> 1, type |-> "despesa", category |-> "mor", date |-> <<2024, 1, 5>>, value |-> 500],
     [id |-> 2, type |-> "despesa", category |-> "mor", date |-> <<2024, 1, 20>>, value |-> 300],
     [id |-> 3, type |-> "despesa", category |-> "mor", date |-> <<2024, 2, 3>>, value |-> 100],
     [id |-> 4, type |-> "entrada", category |-> "mor", date |-> <<2024, 1, 7>>, value |-> 1000],
     [id |-> 5, type |-> "despesa", category |-> "alim", date |-> <<2024, 1, 10>>, value |-> 40],
     [id |-> 6, type |-> "despesa", category |-> "mor", date |-> <<2023, 1, 15>>, value |-> 70],
     [id |-> 7, type |-> "despesa", category |-> "custom_1", date |-> <<2024, 1, 11>>, value |-> 25]}

BudgetTodays == {<<2024, 1, 31>>, <<2024, 2, 10>>}

GetSpentCalls ==
    {[NoCall EXCEPT !.fn = "getSpent", !.category = category, !.period = period,
                    !.txs = txs, !.today0 = today0] :
        category \in {"Moradia", "Alimentacao", "Pets"}, period \in {"monthly", "annual"},
        txs \in SUBSET LedgerPool, today0 \in BudgetTodays}

\* the budget cards are drawn for these amounts spent and limits
BudgetCardCalls ==
    {[NoCall EXCEPT !.fn = "budget-card", !.spent = spent, !.limit = limit] :
        spent \in 0..12, limit \in 1..8}

DbOutcomes == {"ok", "error"}

\* a recurring_expenses table with one obligation of each account holder
RecurringTable ==
    InsertRecurring(
        InsertRecurring({}, 1, [userId |-> "ana@mail", description |-> Rent, category |-> "Moradia",
                                value |-> 150, frequency |-> "monthly",
                                next_due_date |-> <<2024, 2, 5>>]),
        2, [userId |-> "bob@mail", description |-> Net, category |-> "Outros", value |-> 80,
            frequency |-> "annual", next_due_date |-> <<2024, 6, 1>>])

PutBodies ==
    [description : {Net}, category : {"Lazer"}, value : {99}, frequency : {"quarterly"},
     next_due_date : {<<2025, 1, 1>>}, is_active : {0, 1}]

PutRecurringExpenseCalls ==
    {[NoCall EXCEPT !.fn = "PUT /recurring-expenses/:id", !.server = "part_002",
                    !.rows = RecurringTable, !.id = id, !.issuer = issuer, !.body = body,
                    !.db = db] :
        id \in 1..3, issuer \in {"ana@mail", "bob@mail"}, body \in PutBodies, db \in DbOutcomes}

DeleteRecurringExpenseCalls ==
    {[NoCall EXCEPT !.fn = "DELETE /recurring-expenses/:id", !.server = "part_002",
                    !.rows = RecurringTable, !.id = id, !.issuer = issuer, !.db = db] :
        id \in 1..3, issuer \in {"ana@mail", "bob@mail"}, db \in DbOutcomes}

\* a transactions table with one transaction of each account holder
TransactionsTable ==
    InsertTransaction(
        InsertTransaction({}, 1, [type |-> "despesa", description |-> Rent,
                                  category |-> "Moradia", value |-> 150,
                                  date |-> <<2024, 1, 5>>, userId |-> "ana@mail"]),
        2, [type |-> "entrada", description |-> Net, category |-> "Outros", value |-> 80,
            date |-> <<2024, 1, 9>>, userId |-> "bob@mail"])

DeleteTransactionCalls ==
    {[NoCall EXCEPT !.fn = "DELETE /transactions/:id", !.server = "part_002",
                    !.rows = TransactionsTable, !.id = id, !.userId = userId, !.db = db,
                    !.raced = raced] :
        id \in 1..3, userId \in {"", "ana@mail", "bob@mail", "eve@mail"}, db \in DbOutcomes, raced \in BOOLEAN}

\* server.js: the same two transactions, owned by the users 2 and 3
TransactionsTableServerJs ==
    {[id |-> 1, userId |-> 2, description |-> Rent, value |-> 150],
     [id |-> 2, userId |-> 3, description |-> Net, value |-> 80]}

\* userId query strings: "", "abc", "2", "3", "4", "2abc", "3.9"
QueryTexts ==
    {QueryText(0 - 1, FALSE), QueryText(0 - 1, TRUE), QueryText(2, FALSE),
     QueryText(3, FALSE), QueryText(4, FALSE), QueryText(2, TRUE), QueryText(3, TRUE)}

DeleteTransactionServerJsCalls ==
    {[NoCall EXCEPT !.fn = "DELETE /transactions/:id", !.server = "server.js",
                    !.rows = TransactionsTableServerJs, !.id = id, !.query = q, !.db = db,
                    !.raced = raced] :
        id \in 1..3, q \in QueryTexts, db \in DbOutcomes, raced \in BOOLEAN}

\* the users table: the administrator and an account holder
UsersTable == {[id |-> 1, email |-> AdminEmail], [id |-> 2, email |-> "ana@mail"]}

UsersTableServerJs ==
    {[id |-> 1, email |-> "admin@gestor.com", role |-> "admin"],
     [id |-> 2, email |-> "ana@mail", role |-> "user"]}

DeleteUserCalls ==
    {[NoCall EXCEPT !.fn = "DELETE /admin/users/:id", !.server = "part_002",
                    !.rows = UsersTable, !.id = id, !.db = db] :
        id \in 1..3, db \in DbOutcomes}

DeleteUserServerJsCalls ==
    {[NoCall EXCEPT !.fn = "DELETE /admin/users/:id", !.server = "server.js",
                    !.rows = UsersTableServerJs, !.id = id, !.db = db] :
        id \in 1..3, db \in DbOutcomes}

RouteCalls ==
    PutRecurringExpenseCalls \cup DeleteRecurringExpenseCalls \cup DeleteTransactionCalls
    \cup DeleteTransactionServerJsCalls \cup DeleteUserCalls \cup DeleteUserServerJsCalls

InitFn ==
    /\ RecurringAtStart
    /\ GoalsAtStart
    /\ call \in CalcNextDueCalls \cup CalculateFifthBusinessDayCalls \cup CalculateNextDueCalls
                \cup CheckDueExpensesCalls \cup GetSpentCalls \cup RouteCalls
                \cup BudgetCardCalls \cup GetDueStatusCalls
    /\ ret = NoRet

\* the answer of route `fn` of `server` to the request in `call`
Answered(a) == [NoRet EXCEPT !.fn = call.fn, !.status = a.status, !.rows = a.rows]

IsCall(fn, server) == call.fn = fn /\ call.server = server /\ ret.fn = "none"

\* PUT /recurring-expenses/:id has answered
CallPutRecurringExpense ==
    /\ IsCall("PUT /recurring-expenses/:id", "part_002")
    /\ ret' = Answered(PutRecurringExpense(call.rows, call.id, call.body, call.db))
    /\ UNCHANGED <<recVars, goalVars, call>>

\* DELETE /recurring-expenses/:id has answered
CallDeleteRecurringExpense ==
    /\ IsCall("DELETE /recurring-expenses/:id", "part_002")
    /\ ret' = Answered(DeleteRecurringExpense(call.rows, call.id, call.db))
    /\ UNCHANGED <<recVars, goalVars, call>>

\* DELETE /transactions/:id has answered
CallDeleteTransaction ==
    /\ IsCall("DELETE /transactions/:id", "part_002")
    /\ ret' = Answered(DeleteTransaction(call.rows, call.id, call.userId, call.db, call.raced))
    /\ UNCHANGED <<recVars, goalVars, call>>

\* DELETE /transactions/:id of server.js has answered
CallDeleteTransactionServerJs ==
    /\ IsCall("DELETE /transactions/:id", "server.js")
    /\ ret' = Answered(DeleteTransactionServerJs(call.rows, call.id, call.query, call.db,
                                                 call.raced))
    /\ UNCHANGED <<recVars, goalVars, call>>

\* DELETE /admin/users/:id has answered
CallDeleteUser ==
    /\ IsCall("DELETE /admin/users/:id", "part_002")
    /\ ret' = Answered(DeleteUser(call.rows, call.id, call.db))
    /\ UNCHANGED <<recVars, goalVars, call>>

\* DELETE /admin/users/:id of server.js has answered
CallDeleteUserServerJs ==
    /\ IsCall("DELETE /admin/users/:id", "server.js")
    /\ ret' = Answered(DeleteUserServerJs(call.rows, call.id, call.db))
    /\ UNCHANGED <<recVars, goalVars, call>>

\* calcNextDue(currentDueStr, frequency) returns
CallCalcNextDue ==
    /\ call.fn = "calcNextDue" /\ ret.fn = "none"
    /\ ret' = [NoRet EXCEPT !.fn = call.fn, !.date = calcNextDue(call.date, call.frequency)]
    /\ UNCHANGED <<recVars, goalVars, call>>

\* calculateFifthBusinessDay(date) returns
CallCalculateFifthBusinessDay ==
    /\ call.fn = "calculateFifthBusinessDay" /\ ret.fn = "none"
    /\ ret' = [NoRet EXCEPT !.fn = call.fn, !.date = calculateFifthBusinessDay(call.date)]
    /\ UNCHANGED <<recVars, goalVars, call>>

\* calculateNextDue(startDate, recurrence) returns
CallCalculateNextDue ==
    /\ call.fn = "calculateNextDue" /\ ret.fn = "none"
    /\ ret' = [NoRet EXCEPT !.fn = call.fn,
                            !.date = calculateNextDue(call.date, call.frequency, call.today0)]
    /\ UNCHANGED <<recVars, goalVars, call>>

\* checkDueExpenses([expense]) has classified the expense
CallCheckDueExpenses ==
    /\ call.fn = "checkDueExpenses" /\ ret.fn = "none"
    /\ LET diffDays == DiffDays(call.date, call.today0, call.ms)
       IN  ret' = [NoRet EXCEPT !.fn = call.fn, !.days = diffDays, !.bucket = DueBucket(diffDays)]
    /\ UNCHANGED <<recVars, goalVars, call>>

\* getSpent(catName, period) returns
CallGetSpent ==
    /\ call.fn = "getSpent" /\ ret.fn = "none"
    /\ ret' = [NoRet EXCEPT !.fn = call.fn,
                            !.sum = getSpent(call.category, call.period, call.txs, call.today0)]
    /\ UNCHANGED <<recVars, goalVars, call>>

\* getDueStatus(nextDue) returns
CallGetDueStatus ==
    /\ call.fn = "getDueStatus" /\ ret.fn = "none"
    /\ LET badge == getDueStatus(call.date, call.today0, call.ms)
       IN  ret' = [NoRet EXCEPT !.fn = call.fn, !.days = badge.days, !.bucket = badge.label,
                               !.cls = badge.cls]
    /\ UNCHANGED <<recVars, goalVars, call>>

\* Orcamentos has drawn the card of a budget
CallBudgetCard ==
    /\ call.fn = "budget-card" /\ ret.fn = "none"
    /\ ret' = [NoRet EXCEPT !.fn = call.fn, !.pct = pct(call.spent, call.limit),
                            !.label = toFixed0(pct(call.spent, call.limit)),
                            !.overBudget = overBudget(call.spent, call.limit)]
    /\ UNCHANGED <<recVars, goalVars, call>>

NextFn ==
    \/ CallCalcNextDue
    \/ CallCalculateFifthBusinessDay
    \/ CallCalculateNextDue
    \/ CallCheckDueExpenses
    \/ CallGetSpent
    \/ CallPutRecurringExpense
    \/ CallDeleteRecurringExpense
    \/ CallDeleteTransaction
    \/ CallDeleteTransactionServerJs
    \/ CallDeleteUser
    \/ CallDeleteUserServerJs
    \/ CallBudgetCard
    \/ CallGetDueStatus

SpecFn == InitFn /\ [][NextFn]_vars

\* ------------------------------------------------------------------------
\* Properties
\* ------------------------------------------------------------------------
\* the stored row of recurring expense `id` (only used where it exists)
RowOf(id) == CHOOSE r \in recurring : r.id = id

HasRow(id) == \E r \in recurring : r.id = id

\* the transaction a pay call of tab c inserted is (still) in the ledger
TxRemains(c) == \E t \in transactions : t.id = pay[c].txId

\* C1: once a pay call has ended, the ledger transaction it inserted remains
\* exactly when its PUT replaced nextDueDate in a stored row: both or neither.
C1_PayAllOrNothing ==
    \A c \in Tabs :
        pay[c].pc = "ended" => (TxRemains(c) <=> pay[c].changes > 0)

\* C2: a pay call whose POST /transactions was rejected (non-OK answer or a
\* thrown fetch) has ended there: it computed no new due date, sent no PUT,
\* changed no stored row, and no transaction of the ledger is its own.
C2_RejectedLedgerWriteStopsPay ==
    /\ \A c \in Tabs :
          (pay[c].pc # "none" /\ ~pay[c].txOk) =>
              /\ pay[c].pc = "ended"
              /\ pay[c].newDue = NoDate
              /\ ~pay[c].putSent
              /\ pay[c].changes = 0
              /\ pay[c].txId = 0
    /\ {t.id : t \in transactions} = {payLog[i].tx : i \in DOMAIN payLog}

\* C2 witness: a pay of an expense whose value is 0 was answered 400 by the
\* store and ended; the stored row still has the due date the tab saw.
C2_Witness ==
    \E c \in Tabs :
        /\ pay[c].pc = "ended" /\ ~pay[c].txOk /\ pay[c].exp.value = 0
        /\ HasRow(pay[c].exp.id)
        /\ RowOf(pay[c].exp.id).next_due_date = pay[c].exp.next_due_date

\* C3: after a pay call that inserted its transaction and replaced the due
\* date, the due date it persisted is strictly after the day of the call.
C3_PayAdvancesPastToday ==
    \A c \in Tabs :
        (pay[c].pc = "ended" /\ pay[c].txOk /\ pay[c].changes > 0) =>
            StrLT(pay[c].today0, pay[c].newDue)

\* the rows present among those whose creation is recorded
CreatedRows == {a \in created : HasRow(a.id)}

\* C4: a recurring expense added with a start date on or before the day it is
\* added is stored with a next due date strictly after that day.
C4_CreatedDueAfterToday ==
    \A a \in CreatedRows :
        StrLE(a.startDate, a.today0) => StrLT(a.today0, RowOf(a.id).next_due_date)

\* C4 witness: an expense whose start date lies more than one interval back
\* has been stored.
C4_Witness ==
    \E a \in CreatedRows :
        /\ a.recurrence = "monthly"
        /\ StrLE(calcNextDue(a.startDate, a.recurrence), a.today0)
        /\ StrLT(a.today0, RowOf(a.id).next_due_date)

\* C5: a start date strictly after the day of creation is stored as the next
\* due date exactly as given (no advancement), whatever the frequency.
C5_FutureStartUnchanged ==
    \A a \in CreatedRows :
        StrLT(a.today0, a.startDate) => RowOf(a.id).next_due_date = a.startDate

\* C5 witness: a fifth-business-day expense with a future start date that is
\* not itself a fifth business day has been stored as given.
C5_Witness ==
    \E a \in CreatedRows :
        /\ a.recurrence = "fifth-business-day"
        /\ StrLT(a.today0, a.startDate)
        /\ a.startDate[3] = 20
        /\ RowOf(a.id).next_due_date = a.startDate

\* C6: a start date equal to the day of creation is advanced by exactly one
\* interval and is never stored equal to that day.
C6_DueTodayIsAdvanced ==
    \A a \in CreatedRows :
        a.startDate = a.today0 =>
            /\ RowOf(a.id).next_due_date = calcNextDue(a.startDate, a.recurrence)
            /\ StrLT(a.today0, RowOf(a.id).next_due_date)

\* C6 witness: an expense starting on the day of creation has been stored.
C6_Witness ==
    \E a \in CreatedRows :
        a.startDate = a.today0 /\ RowOf(a.id).next_due_date # a.today0

\* C7: the transaction a pay call inserts is dated with the next due date of
\* the expense the call was given, not with the day of the call.
C7_TxDatedWithDueDate ==
    \A c \in Tabs : \A t \in transactions :
        (pay[c].txId # 0 /\ t.id = pay[c].txId) => t.date = pay[c].exp.next_due_date

\* C7 witness: a pay call made on a day other than the due date has inserted
\* its transaction.
C7_Witness ==
    \E c \in Tabs : \E t \in transactions :
        /\ pay[c].txId # 0 /\ t.id = pay[c].txId
        /\ StrLT(pay[c].exp.next_due_date, pay[c].today0)
        /\ t.date # pay[c].today0

\* C8: the transaction a pay call inserts is an expense ('despesa') with the
\* description and value of the expense paid, the id of that expense's own
\* category and the owner of that expense; the category map sends each of the
\* six category names to the id of that very category.
C8_TxCopiesObligation ==
    /\ \A c \in Tabs : \A t \in transactions :
          (pay[c].txId # 0 /\ t.id = pay[c].txId) =>
              /\ t.type = "despesa"
              /\ t.description = pay[c].exp.description
              /\ t.value = pay[c].exp.value
              /\ CategoryName(t.category) = pay[c].exp.category
              /\ t.userId = pay[c].exp.userId
    /\ \A category \in validCategories :
          CategoryName(RECURRING_CAT_MAP(category)) = category

\* C8 witness: an expense of category Moradia has been paid.
C8_Witness ==
    \E c \in Tabs : \E t \in transactions :
        /\ pay[c].txId # 0 /\ t.id = pay[c].txId
        /\ pay[c].exp.category = "Moradia" /\ t.category = "mor"

C10_PayOnInactiveFails ==
    \A c \in Tabs :
        (pay[c].pc = "ended" /\ pay[c].activeAtCall = 0) =>
            /\ pay[c].txId = 0
            /\ pay[c].changes = 0

\* the frequency tags one of the two versions of the client knows
KnownFrequencies == Frequencies \cup LegacyFrequencies

\* C11: advancing a due date with a frequency tag that is not one of the
\* known tags produces no date (it fails); it never advances by a month.
C11_UnknownFrequencyFails ==
    (ret.fn \in {"calcNextDue", "calculateNextDue"} /\ call.frequency \notin KnownFrequencies) =>
        ret.date = NoDate

\* the calendar month after the month of `date`, as <<year, month>>
FollowingMonth(date) ==
    IF date[2] = 12 THEN <<date[1] + 1, 1>> ELSE <<date[1], date[2] + 1>>

IsBusinessDay(date) == getDay(date) \in 1..5

\* `result` is the fifth Monday-Friday day of the month that follows `date`
IsFifthBusinessDayAfter(date, result) ==
    LET nm == FollowingMonth(date)
    IN  /\ <<result[1], result[2]>> = nm
        /\ IsValidCalendarDate(result)
        /\ IsBusinessDay(result)
        /\ Cardinality({d \in 1..(result[3] - 1) : IsBusinessDay(<<nm[1], nm[2], d>>)}) = 4

\* the calls that advance a date to a fifth business day
IsFifthBusinessDayCall ==
    \/ ret.fn = "calculateFifthBusinessDay"
    \/ ret.fn = "calcNextDue" /\ call.frequency = "fifth-business-day"

\* C12: the fifth-business-day advancement of any date is the fifth
\* Monday-Friday day of the following calendar month (December rolls to
\* January of the next year); 2024-01-15 gives 2024-02-07.
C12_FifthBusinessDayOfNextMonth ==
    IsFifthBusinessDayCall =>
        /\ IsFifthBusinessDayAfter(call.date, ret.date)
        /\ call.date = <<2024, 1, 15>> => ret.date = <<2024, 2, 7>>

\* C12, for calcNextDue of App.jsx alone (the function the server-backed
\* client uses): its 'fifth-business-day' case is that fifth business day.
C12_CalcNextDueFifthBusinessDay ==
    (ret.fn = "calcNextDue" /\ call.frequency = "fifth-business-day") =>
        IsFifthBusinessDayAfter(call.date, ret.date)

\* the months a frequency adds
IntervalMonths(frequency) ==
    CASE frequency = "monthly" -> 1
      [] frequency = "bimonthly" -> 2
      [] frequency = "quarterly" -> 3
      [] frequency = "semiannual" -> 6
      [] frequency = "annual" -> 12

\* C13: for monthly, bimonthly, quarterly, semiannual and annual, calcNextDue
\* returns the same day of the month 1, 2, 3, 6 or 12 months later when that
\* day exists there; otherwise the days past the end of the target month are
\* counted into the month after it (the date is not clamped to the last day).
C13_IntervalKeepsDayOrRollsOver ==
    (ret.fn = "calcNextDue" /\ call.frequency \in Frequencies \ {"fifth-business-day"}) =>
        LET idx == call.date[1] * 12 + (call.date[2] - 1) + IntervalMonths(call.frequency)
            ty == idx \div 12
            tm == (idx % 12) + 1
            d == call.date[3]
            last == DaysInMonth(ty, tm)
            after == FollowingMonth(<<ty, tm, 1>>)
        IN  IF d <= last
            THEN ret.date = <<ty, tm, d>>
            ELSE ret.date = <<after[1], after[2], d - last>> /\ ret.date # <<ty, tm, last>>

\* C13 witness: Feb 29 plus one year has been computed and did roll over,
\* to March 1.
C13_Witness ==
    /\ ret.fn = "calcNextDue" /\ call.frequency = "annual" /\ call.date = <<2024, 2, 29>>
    /\ ret.date = <<2025, 3, 1>>

\* C14: for a due date k days after today (k < 0: before), the classifier
\* yields daysUntilDue = k and exactly one bucket: overdue iff k < 0, dueSoon
\* iff 0 <= k <= 7, scheduled (no alert) iff k > 7, at any time of the day.
C14_ClassifierBuckets ==
    ret.fn = "checkDueExpenses" =>
        \A k \in (0 - MaxDiffDays)..MaxDiffDays :
            (\/ k >= 0 /\ call.date = AddDays(call.today0, k)
             \/ k < 0 /\ call.today0 = AddDays(call.date, 0 - k)) =>
                /\ ret.days = k
                /\ ret.bucket = "overdue" <=> k < 0
                /\ ret.bucket = "dueSoon" <=> (0 <= k /\ k <= 7)
                /\ ret.bucket = "scheduled" <=> k > 7
                /\ k = 0 - 3 => ret = [NoRet EXCEPT !.fn = call.fn, !.days = 0 - 3, !.bucket = "overdue"]
                /\ k = 0 => ret = [NoRet EXCEPT !.fn = call.fn, !.bucket = "dueSoon"]
                /\ k = 8 => ret = [NoRet EXCEPT !.fn = call.fn, !.days = 8, !.bucket = "scheduled"]

\* C14 witness: late in the day, an expense due three days ago has been
\* classified overdue with -3, and one due today would be dueSoon with 0.
C14_Witness ==
    /\ ret.fn = "checkDueExpenses" /\ call.ms = MsPerDay - 1
    /\ call.today0 = <<2024, 3, 15>> /\ call.date = <<2024, 3, 12>>
    /\ ret.bucket = "overdue" /\ ret.days = 0 - 3

\* C15: whenever a session's list of recurring expenses is replaced by what
\* the server returned, every expense in it is a stored row of the session's
\* user whose is_active is 1.
C15_ReadsOnlyActiveOwned ==
    [][\A c \in Sessions :
          view'[c] # view[c] =>
              view'[c] \subseteq {r \in recurring' : r.userId = currentUser(c) /\ r.is_active = 1}]_vars

\* C15 witness: the expense one user created is stored inactive, and both the
\* creator's list (which held it) and the other user's list are empty.
C15_Witness ==
    /\ \E r \in recurring : r.userId = currentUser("tab1") /\ r.is_active = 0
    /\ created # {}
    /\ view["tab1"] = {} /\ view[OtherSession] = {}

\* the transactions a budget of display name `name` counts on day `now`:
\* expenses, of a category with that name, dated in the month and year of
\* `now` (monthly) or in its year (annual)
CountedFor(name, period, rows, now) ==
    {t \in rows :
        /\ t.type = "despesa"
        /\ \E c \in categoriasDesp : c.id = t.category /\ c.name = name
        /\ t.date[1] = now[1]
        /\ period = "monthly" => t.date[2] = now[2]}

\* C16: getSpent is the sum of the values of exactly the expense transactions
\* of the budget's category dated in today's month and year (monthly) or in
\* today's year (annual); 500 + 300 this month and 100 in another month is 800.
C16_SpentInPeriod ==
    ret.fn = "getSpent" =>
        /\ ret.sum = SumValues(CountedFor(call.category, call.period, call.txs, call.today0))
        /\ (/\ call.category = "Moradia" /\ call.period = "monthly"
            /\ call.today0 = <<2024, 1, 31>>
            /\ {t.id : t \in call.txs} = {1, 2, 3}) => ret.sum = 800

\* C16 witness: the monthly spend of Moradia has been computed as 800 over a
\* ledger that also holds an income, another category, another month and the
\* same month of another year.
C16_Witness ==
    /\ ret.fn = "getSpent" /\ call.category = "Moradia" /\ call.period = "monthly"
    /\ call.today0 = <<2024, 1, 31>> /\ call.txs = LedgerPool
    /\ ret.sum = 800

\* C17: a contribution of zero, of a negative amount or of an empty input
\* fails (updateGoal does not report success) and leaves the stored
\* current_amount of the goal as it was.
C17_NonPositiveContributionFails ==
    \A c \in Tabs :
        (contrib[c].pc = "done" /\ contrib[c].amount <= 0) =>
            /\ ~contrib[c].ok
            /\ contrib[c].after = contrib[c].before

\* C18: a contribution of a positive amount that the server applied leaves
\* the stored goal with current_amount = the goal's current_amount + amount
\* and with the name, target, deadline, category, owner and active flag of the
\* goal contributed to; a goal is shown completed exactly when its
\* current_amount is at least its target (900 + 150 against 1000: 1050,
\* completed).
C18_ContributionAddsAmount ==
    \A c \in Tabs :
          (contrib[c].pc = "done" /\ contrib[c].amount > 0 /\ contrib[c].ok
           /\ contrib[c].before # NoRow) =>
              LET goal == contrib[c].goal
                  after == contrib[c].after
              IN  /\ after = [goal EXCEPT !.current_amount = goal.current_amount + contrib[c].amount]
                  /\ goal.current_amount = contrib[c].before.current_amount =>
                        after.current_amount = contrib[c].before.current_amount + contrib[c].amount
                  /\ (goal.current_amount = 900 /\ contrib[c].amount = 150
                      /\ goal.target_amount = 1000) =>
                        after.current_amount = 1050 /\ completed(after)
                  /\ \A g \in goalView[c] :
                        (g.id = after.id /\ g.current_amount >= g.target_amount) =>
                            \A contribution \in Contributions, net \in Outcomes :
                                ~ENABLED handleContribution(c, g, contribution, net)

\* C18 witness: 150 has been contributed to a goal at 900 of 1000; the stored
\* goal is at 1050 and listed as completed.
C18_Witness ==
    \E c \in Tabs :
        /\ contrib[c].pc = "done" /\ contrib[c].ok /\ contrib[c].amount = 150
        /\ contrib[c].goal.current_amount = 900
        /\ contrib[c].after.current_amount = 1050
        /\ \E g \in goalView[c] : g.id = contrib[c].goal.id /\ completed(g)

\* C19: every stored goal has current_amount >= 0.
C19_CurrentAmountNonNegative ==
    \A g \in goals : g.current_amount >= 0

\* C20: every stored recurring expense has a description that is not empty
\* and at most 100 characters long, a value that is positive and at most
\* 1,000,000, and one of the six frequencies, after creates and edits alike.
C20_StoredObligationsValid ==
    \A r \in recurring :
        /\ r.description.body > 0 /\ r.description.body <= MaxDescription
        /\ r.value > 0 /\ r.value <= MaxAmount
        /\ r.frequency \in Frequencies

\* the route of `server` named fn has answered the request in `call`
HasAnswered(fn, server) == call.fn = fn /\ call.server = server /\ ret.fn = fn

\* C21: a PUT or DELETE on /recurring-expenses/:id that the database served
\* leaves every obligation of a user other than the one who issued it as it was
C21_ForeignRequestLeavesObligation ==
    (/\ \/ HasAnswered("PUT /recurring-expenses/:id", "part_002")
        \/ HasAnswered("DELETE /recurring-expenses/:id", "part_002"))
    => \A r \in call.rows : r.userId # call.issuer => r \in ret.rows

\* the owner of transaction `id` in the table of the request, 0 when it has none
OwnerOf(rows, id) ==
    IF \E r \in rows : r.id = id THEN (CHOOSE r \in rows : r.id = id).userId ELSE 0

\* the four cases of deleting a transaction, for a request the database
\* served without another request interfering
OwnershipVerified(missing, known, equalsOwner) ==
    /\ missing => ret.status = 400 /\ ret.rows = call.rows
    /\ ~missing /\ ~known => ret.status = 404 /\ ret.rows = call.rows
    /\ ~missing /\ known /\ ~equalsOwner => ret.status = 403 /\ ret.rows = call.rows
    /\ ret.rows # call.rows => equalsOwner

\* C22 on the current server: 400 without userId, 404 for an unknown id, 403
\* for a userId that is not the owner's, the table unchanged in all three,
\* and a row removed only for the owner's userId
C22_Part002VerifiesOwnership ==
    (HasAnswered("DELETE /transactions/:id", "part_002") /\ call.db = "ok" /\ ~call.raced)
    => OwnershipVerified(call.userId = "",
                         \E r \in call.rows : r.id = call.id,
                         call.userId = OwnerOf(call.rows, call.id))

\* C22: on both servers DELETE /transactions/:id answers 400 without userId,
\* 404 for an unknown id, 403 for a userId that is not the owner's, leaves the
\* table unchanged in all three, and removes a row only for the owner's userId
C22_DeleteVerifiesOwnership ==
    /\ C22_Part002VerifiesOwnership
    /\ (HasAnswered("DELETE /transactions/:id", "server.js") /\ call.db = "ok" /\ ~call.raced)
       => OwnershipVerified(IsEmptyQuery(call.query),
                            \E r \in call.rows : r.id = call.id,
                            call.query = QueryText(OwnerOf(call.rows, call.id), FALSE))

\* the administrator accounts of the table of the request
Administrators ==
    IF call.server = "server.js" THEN {u \in call.rows : u.role = "admin"}
    ELSE {u \in call.rows : u.email = AdminEmail}

\* C23: DELETE /admin/users/:id never removes an administrator: for an
\* administrator's id the request is rejected and the users table is unchanged
C23_AdministratorsNotDeleted ==
    (call.fn = "DELETE /admin/users/:id" /\ ret.fn = call.fn)
    => /\ Administrators \subseteq ret.rows
       /\ (\E u \in Administrators : u.id = call.id)
          => ret.status # 200 /\ ret.rows = call.rows

\* C24: for every spend and positive limit the card shows pct / 100 =
\* min(spend / limit, 1), at most 100%, and overBudget = (spend > limit); a
\* spend equal to the limit shows 100% and is not over budget, and an
\* over-budget card shows its percentage at the cap
C24_BudgetCard ==
    (call.fn = "budget-card" /\ ret.fn = call.fn)
    => /\ ret.pct.num * call.limit
            = 100 * (IF call.spent <= call.limit THEN call.spent ELSE call.limit) * ret.pct.den
       /\ ret.label <= 100
       /\ ret.overBudget <=> call.spent > call.limit
       /\ call.spent = call.limit => ret.label = 100 /\ ~ret.overBudget
       /\ ret.overBudget => ret.pct.num = 100 * ret.pct.den /\ ret.label = 100

\* C24 witness: the card of a budget whose spend equals its limit has been
\* drawn and shows 100%
C24_Witness ==
    /\ call.fn = "budget-card" /\ ret.fn = call.fn
    /\ call.spent = call.limit
    /\ ret.label = 100

\* the entries of the pay log that belong to obligation `id`
PaysOf(id) == {i \in DOMAIN payLog : payLog[i].obl = id}

\* C25: with no owner edit, no two ledger transactions that pay created for
\* one obligation carry the same date, and once no pay call is in flight the
\* number of those transactions equals the number of dates the obligation
\* writes of pay moved the stored next due date to
C25_NoOccurrencePaidTwice ==
    \A id \in 1..MaxObl :
        /\ \A i, j \in PaysOf(id) : i # j => payLog[i].date # payLog[j].date
        /\ (\A c \in Tabs : pay[c].pc # "posted")
           => Cardinality(PaysOf(id))
                = Cardinality({payLog[i].newDue : i \in {k \in PaysOf(id) : payLog[k].put}})

\* C26: the step in which the obligation write of a pay call is served leaves
\* description, category, value, frequency and the active flag of the stored
\* obligation as they were immediately before it
C26_PayChangesOnlyNextDue ==
    [][\A c \in Tabs :
          (pay[c].pc = "posted" /\ pay'[c].pc = "ended")
          => \A r \in recurring :
                r.id = pay[c].exp.id
                => \E q \in recurring' :
                      /\ q.id = r.id
                      /\ q.description = r.description
                      /\ q.category = r.category
                      /\ q.value = r.value
                      /\ q.frequency = r.frequency
                      /\ q.is_active = r.is_active]_vars

\* C27: no contribution is lost: where the sessions contribute positive
\* amounts to a goal with a non-negative amount, every contribution that
\* the server accepted has raised the stored current amount by its amount,
\* so that the stored amount is the initial amount plus the sum of the
\* contributions; this also for a contribution submitted from a list
\* fetched earlier
C27_NoContributionLost ==
    \A c \in Tabs :
        (/\ contrib[c].pc = "done" /\ contrib[c].ok /\ contrib[c].before # NoRow
         /\ \A d \in Tabs : contrib[d].pc = "done" => contrib[d].amount > 0
         /\ contrib[c].goal.current_amount >= 0)
        => contrib[c].after.current_amount
             = contrib[c].before.current_amount + contrib[c].amount

\* C30: completion is permanent: a stored goal whose current amount has
\* reached its target is not below the target after any later action, a
\* contribution of a positive amount included
C30_CompletionPermanent ==
    [][(\A c \in Tabs : contrib'[c] # contrib[c] => contrib'[c].amount > 0)
       => \A g \in goals : \A h \in goals' :
             (h.id = g.id /\ completed(g)) => completed(h)]_vars

\* the bucket of checkDueExpenses that a badge class stands for
BucketOfClass(cls) ==
    IF cls = "overdue" THEN "overdue" ELSE IF cls = "due-soon" THEN "dueSoon" ELSE "scheduled"

\* C29: for every due date and clock the badge of getDueStatus is the bucket
\* that checkDueExpenses assigns; an obligation due today is due-soon
C29_ClassifiersAgree ==
    (call.fn = "getDueStatus" /\ ret.fn = call.fn /\ call.date # NoDate)
    => /\ BucketOfClass(ret.cls) = DueBucket(DiffDays(call.date, call.today0, call.ms))
       /\ call.date = call.today0 => ret.cls = "due-soon"

\* C28: calcNextDue is strictly increasing: for every date and every
\* frequency tag, recognized or not, the date it returns is later than the
\* date it was given
C28_CalcNextDueIncreasing ==
    (call.fn = "calcNextDue" /\ ret.fn = call.fn) => StrLT(call.date, ret.date)

\* C28 witness: calcNextDue has returned for the last day of a year and a tag
\* its switch does not know, with a date of the next year
C28_Witness ==
    /\ call.fn = "calcNextDue" /\ ret.fn = call.fn
    /\ call.frequency = UnknownFrequency
    /\ call.date = <<2024, 12, 31>>
    /\ ret.date[1] = 2025

====
